---- MODULE Spec2Model ----
(***************************************************************************)
(* State-machine model of the expense tracker's persistence layer,         *)
(* ExpenseTrackerORM (src/expense_tracker_sqlalchemy.py), as driven by the *)
(* web routes of src/app_orm.py.                                           *)
(*                                                                         *)
(* The two tables of the schema are sets of rows.  Every manager method is *)
(* one action covering the whole method: session creation, the query or    *)
(* write, commit or rollback, and the finally clause.                      *)
(*                                                                         *)
(* The schema of the source has no user column and no manager method takes *)
(* a user.  The routes of app_orm.py resolve a user identity (uid) before  *)
(* each call; that identity is the parameter u of the actions.  It is      *)
(* recorded in the history variables catOwner and txOwner (who created a   *)
(* row), which no operation reads; nothing else of a call depends on it.   *)
(*                                                                         *)
(* Not represented: Category.created_at and Transaction.updated_at (no     *)
(* operation reads them), and the console output of the methods.           *)
(***************************************************************************)
EXTENDS Integers, Sequences, FiniteSets, TLC

VARIABLES
    users,          \* registered users: set of [id, username]
    categories,     \* table categories: set of [id, name, type]
    transactions,   \* table transactions: set of rows, see add_transaction
    nextCatId,      \* AUTO_INCREMENT of categories.id
    nextTxId,       \* AUTO_INCREMENT of transactions.id
    nextUserId,     \* AUTO_INCREMENT of users.id
    openSessions,   \* sessions created by self.Session() and not yet closed
    catOwner,       \* history: category id -> user on whose behalf it was created
    txOwner,        \* history: transaction id -> user on whose behalf it was created
    ret             \* what the last call handed back: [op, ok, out]

vars == <<users, categories, transactions, nextCatId, nextTxId, nextUserId,
          openSessions, catOwner, txOwner, ret>>

-----------------------------------------------------------------------------
(* Bounds of the model *)

MaxUsers == 2
MaxTx == 2
MaxCatId == 11
MaxLimit == 2

-----------------------------------------------------------------------------
(* Values *)

\* category_id is a nullable column; ids start at 1, so 0 stands for NULL / None
NULL == 0

\* no acting user: rows seeded while the tracker is constructed
NoUser == NULL

Users == 1..MaxUsers

\* class CategoryType
CategoryType == {"income", "expense"}

\* strings a caller may pass as a category type or type filter
TypeInputs == CategoryType \cup {"transfer"}

\* type filters a caller passes to get_categories: none, and a string that
\* is not 'income'
FilterInputs == {"None", "transfer"}

\* the list default_categories, in order; names transliterated
default_categories ==
    << <<"salary", "income">>,
       <<"investment", "income">>,
       <<"other_income", "income">>,
       <<"food", "expense">>,
       <<"transport", "expense">>,
       <<"entertainment", "expense">>,
       <<"shopping", "expense">>,
       <<"daily", "expense">>,
       <<"medical", "expense">>,
       <<"other_expense", "expense">> >>

\* names a caller passes to add_category: the name of the first default
NameInputs == {"salary"}

\* sentinels of get_transactions for a transaction without category
\* (the source's name sentinel is the literal "未分類", uncategorized)
Uncategorized == "uncategorized"
UnknownType == "unknown"

Amounts == {-1, 2}
Descriptions == {"lunch"}

\* date arguments: None, an unparsable string, and a valid date
NoDate == "None"
DateInputs == {NoDate, "yesterday", "2024-01-01"}

\* datetime.strptime(date, "%Y-%m-%d").date(): the day as a number, or
\* a ValueError (here: NULL) when the string does not parse
strptime(s) ==
    CASE s = "2024-01-01" -> 20240101
      [] s = "2024-01-02" -> 20240102
      [] OTHER -> NULL

\* datetime.now().date(): the day of the run, after the date above
Today == 20240102

\* the date of the new row: today for None, else the parsed string, and
\* NULL where strptime raises
DateOf(date) == IF date = NoDate THEN Today ELSE strptime(date)

\* the first id past the seeded defaults.  Categories are added by callers
\* on top of a seeded table only: the ids from here to MaxCatId.
FirstUserCatId == Len(default_categories) + 1

\* category ids a caller refers to: the first default (an income category)
\* and the ids handed to categories that callers add, whether the row exists
\* at the time of the call or not
CategoryIdInputs == {1} \cup (FirstUserCatId..MaxCatId)

TransactionIdInputs == 1..(MaxTx + 1)

Limits == 1..MaxLimit

\* what a call hands back: the method, whether it succeeded, and its value
\* (for a failed call, the reason)
Result(op, ok, out) == [op |-> op, ok |-> ok, out |-> out]

-----------------------------------------------------------------------------
(* Sessions *)

\* session = self.Session()
Open(n) == n + 1

\* session.close() at the end of the try block instead of in a finally clause
ReleaseOnReturnOnly(path, n) == IF path = "return" THEN n - 1 ELSE n

\* the finally clause of every method: session.close(), whatever the exit
\* path of the try block was ("return", "notfound", "except")
Release(path, n) == n - 1

\* a whole try/finally around a session
Scoped(path, n) == Release(path, Open(n))

-----------------------------------------------------------------------------
(* Seeding and construction *)

\* the rows the loop of _add_default_categories adds, ids from first on
SeedRows(first) ==
    { [id |-> first + i - 1,
       name |-> default_categories[i][1],
       type |-> default_categories[i][2]] : i \in 1..Len(default_categories) }

\* _add_default_categories: the table after the call.  Nothing is added
\* when the table holds any row, or when the storage fails (rollback).
add_default_categories(cats, first, fail) ==
    IF Cardinality(cats) > 0 THEN cats
    ELSE IF fail THEN cats
    ELSE cats \cup SeedRows(first)

\* exit path of the try block of _add_default_categories
SeedPath(cats, fail) ==
    IF Cardinality(cats) > 0 THEN "return"
    ELSE IF fail THEN "except" ELSE "return"

\* init_database: drop_all and create_all empty both tables and restart
\* their AUTO_INCREMENT, then the seeding runs.  The tables and counters
\* after constructing ExpenseTrackerORM.
Constructed(fail) ==
    LET seeded == add_default_categories({}, 1, fail)
    IN [categories |-> seeded,
        transactions |-> {},
        nextCatId |-> 1 + Cardinality(seeded),
        nextTxId |-> 1,
        catOwner |-> [c \in {r.id : r \in seeded} |-> NoUser],
        txOwner |-> << >>]

Init ==
    /\ \E fail \in BOOLEAN :
          LET db == Constructed(fail)
          IN /\ categories = db.categories
             /\ transactions = db.transactions
             /\ nextCatId = db.nextCatId
             /\ nextTxId = db.nextTxId
             /\ catOwner = db.catOwner
             /\ txOwner = db.txOwner
    /\ users = {}
    /\ nextUserId = 1
    /\ openSessions = 0
    /\ ret = Result("init_database", TRUE, << >>)

-----------------------------------------------------------------------------
(* Helpers over the tables *)

Ids(rows) == {r.id : r \in rows}

\* the category row with this id; only used where one exists
CategoryById(cats, id) == CHOOSE c \in cats : c.id = id

RECURSIVE SumAmounts(_)
\* Python's sum over the amounts of a set of rows
SumAmounts(rows) ==
    IF rows = {} THEN 0
    ELSE LET r == CHOOSE x \in rows : TRUE
         IN r.amount + SumAmounts(rows \ {r})

-----------------------------------------------------------------------------
(* Transaction manager *)

\* created_at = datetime.now at the resolution of the DateTime column.  The
\* operations only compare these values, so they are kept as ordinals: the
\* value of a new row is that of the latest row (written within the same
\* tick of the clock) or the next one.
Stamps(txs) ==
    IF txs = {} THEN {1}
    ELSE LET latest == CHOOSE s \in {t.created_at : t \in txs} :
                           \A t \in txs : t.created_at <= s
         IN {latest, latest + 1}

\* add_transaction(amount, category_id, description, date); fail is a
\* storage error at commit
add_transaction(u, amount, category_id, description, date, fail) ==
    /\ IF DateOf(date) = NULL
       THEN \* strptime raises ValueError before any session is created
            /\ ret' = Result("add_transaction", FALSE, "ValueError")
            /\ UNCHANGED <<transactions, nextTxId, txOwner, openSessions>>
       ELSE IF category_id # NULL /\ category_id \notin Ids(categories)
       THEN \* the foreign key rejects the row: except branch, rollback
            /\ ret' = Result("add_transaction", FALSE, "IntegrityError")
            /\ openSessions' = Scoped("except", openSessions)
            /\ UNCHANGED <<transactions, nextTxId, txOwner>>
       ELSE IF fail
       THEN /\ ret' = Result("add_transaction", FALSE, "StorageError")
            /\ openSessions' = Scoped("except", openSessions)
            /\ UNCHANGED <<transactions, nextTxId, txOwner>>
       ELSE /\ nextTxId <= MaxTx
            /\ \E stamp \in Stamps(transactions) :
                 transactions' = transactions \cup
                    {[id |-> nextTxId, amount |-> amount,
                      category_id |-> category_id, description |-> description,
                      date |-> DateOf(date), created_at |-> stamp]}
            /\ nextTxId' = nextTxId + 1
            /\ txOwner' = [t \in DOMAIN txOwner \cup {nextTxId} |->
                              IF t = nextTxId THEN u ELSE txOwner[t]]
            /\ ret' = Result("add_transaction", TRUE, nextTxId)
            /\ openSessions' = Scoped("return", openSessions)
    /\ UNCHANGED <<users, categories, nextCatId, nextUserId, catOwner>>

\* delete_transaction(transaction_id)
delete_transaction(u, transaction_id, fail) ==
    LET found == {t \in transactions : t.id = transaction_id}
    IN
    /\ IF fail
       THEN /\ ret' = Result("delete_transaction", FALSE, "StorageError")
            /\ openSessions' = Scoped("except", openSessions)
            /\ UNCHANGED <<transactions, txOwner>>
       ELSE IF found = {}
       THEN /\ ret' = Result("delete_transaction", FALSE, "notfound")
            /\ openSessions' = Scoped("notfound", openSessions)
            /\ UNCHANGED <<transactions, txOwner>>
       ELSE /\ transactions' = transactions \ found
            /\ txOwner' = [t \in DOMAIN txOwner \ {transaction_id} |-> txOwner[t]]
            /\ ret' = Result("delete_transaction", TRUE, transaction_id)
            /\ openSessions' = Scoped("return", openSessions)
    /\ UNCHANGED <<users, categories, nextCatId, nextTxId, nextUserId, catOwner>>

-----------------------------------------------------------------------------
(* Accounting engine and listings *)

RECURSIVE Perms(_)
\* all orders in which a query may return a set of rows
Perms(S) ==
    IF S = {} THEN {<< >>}
    ELSE UNION {{<<x>> \o p : p \in Perms(S \ {x})} : x \in S}

\* a sorts no later than b under
\* order_by(Transaction.date.desc(), Transaction.created_at.desc())
OrderedBefore(a, b) ==
    \/ a.date > b.date
    \/ a.date = b.date /\ a.created_at >= b.created_at

\* the orders the ORDER BY allows: rows equal in both keys come in any order
Orderings(rows) ==
    {p \in Perms(rows) :
        \A i \in 1..Len(p) : \A j \in i..Len(p) : OrderedBefore(p[i], p[j])}

\* the tuple get_transactions builds for one row: (id, amount, category
\* name, category type, description, date); trans.category is None when the
\* outer join finds no category
TransactionTuple(t, cats) ==
    LET joined == {c \in cats : c.id = t.category_id}
    IN <<t.id,
         t.amount,
         IF joined # {} THEN CategoryById(cats, t.category_id).name ELSE Uncategorized,
         IF joined # {} THEN CategoryById(cats, t.category_id).type ELSE UnknownType,
         t.description,
         t.date>>

\* .limit(limit).all() on an ordered result
Limit(p, limit) == SubSeq(p, 1, IF limit < Len(p) THEN limit ELSE Len(p))

\* get_transactions(limit)
get_transactions(u, limit, fail) ==
    /\ IF fail
       THEN /\ ret' = Result("get_transactions", FALSE, << >>)
            /\ openSessions' = Scoped("except", openSessions)
       ELSE /\ \E p \in Orderings(transactions) :
                 ret' = Result("get_transactions", TRUE,
                               [i \in 1..Len(Limit(p, limit)) |->
                                    TransactionTuple(p[i], categories)])
            /\ openSessions' = Scoped("return", openSessions)
    /\ UNCHANGED <<users, categories, transactions, nextCatId, nextTxId,
                   nextUserId, catOwner, txOwner>>

\* the rows of session.query(Transaction).join(Category).filter(Category.type
\* == type): an inner join, so a row without category is in no such result
JoinedOfType(txs, cats, type) ==
    {t \in txs : \E c \in cats : c.id = t.category_id /\ c.type = type}

\* the balance as the sum of both totals
BalanceAdding(txs, cats, fail) ==
    LET total_income == SumAmounts(JoinedOfType(txs, cats, "income"))
        total_expense == SumAmounts(JoinedOfType(txs, cats, "expense"))
    IN [total_income |-> total_income,
        total_expense |-> total_expense,
        balance |-> total_income + total_expense]

\* the dictionary get_balance returns
Balance(txs, cats, fail) ==
    IF fail
    THEN [total_income |-> 0, total_expense |-> 0, balance |-> 0]
    ELSE LET total_income == SumAmounts(JoinedOfType(txs, cats, "income"))
             total_expense == SumAmounts(JoinedOfType(txs, cats, "expense"))
         IN [total_income |-> total_income,
             total_expense |-> total_expense,
             balance |-> total_income - total_expense]

\* get_balance()
get_balance(u, fail) ==
    /\ ret' = Result("get_balance", ~fail,
                     Balance(transactions, categories, fail))
    /\ openSessions' = Scoped(IF fail THEN "except" ELSE "return", openSessions)
    /\ UNCHANGED <<users, categories, transactions, nextCatId, nextTxId,
                   nextUserId, catOwner, txOwner>>

-----------------------------------------------------------------------------
(* Category manager *)

\* position of a type in the ENUM column, the order ORDER BY type uses
TypeRank(type) == IF type = "income" THEN 1 ELSE 2

\* the names of the model in ascending order of the name column
NameOrder ==
    <<"daily", "entertainment", "food", "investment", "medical",
      "other_expense", "other_income", "salary", "shopping", "transport">>

NameRanks ==
    [name \in {NameOrder[i] : i \in 1..Len(NameOrder)} |->
        CHOOSE i \in 1..Len(NameOrder) : NameOrder[i] = name]

NameRank(name) == NameRanks[name]

\* tuple a comes before tuple b under order_by(Category.type, Category.name)
CategoryBefore(a, b) ==
    \/ TypeRank(a[3]) < TypeRank(b[3])
    \/ TypeRank(a[3]) = TypeRank(b[3]) /\ NameRank(a[2]) < NameRank(b[2])

RECURSIVE CategoryTuples(_)
\* the tuples (id, name, type) of a set of categories, in no particular order
CategoryTuples(cats) ==
    IF cats = {} THEN << >>
    ELSE LET c == CHOOSE x \in cats : TRUE
         IN << <<c.id, c.name, c.type>> >> \o CategoryTuples(cats \ {c})

\* the tuples in the order of the query
OrderedCategories(cats) == SortSeq(CategoryTuples(cats), CategoryBefore)

\* the filter of get_categories: no filter for None, and any
\* other string than 'income' selects the expense categories
FilteredCategories(cats, category_type) ==
    IF category_type = "None" THEN cats
    ELSE LET cat_type == IF category_type = "income" THEN "income" ELSE "expense"
         IN {c \in cats : c.type = cat_type}

\* get_categories(category_type)
get_categories(u, category_type, fail) ==
    /\ IF fail
       THEN /\ ret' = Result("get_categories", FALSE, << >>)
            /\ openSessions' = Scoped("except", openSessions)
       ELSE /\ ret' = Result("get_categories", TRUE,
                   OrderedCategories(FilteredCategories(categories, category_type)))
            /\ openSessions' = Scoped("return", openSessions)
    /\ UNCHANGED <<users, categories, transactions, nextCatId, nextTxId,
                   nextUserId, catOwner, txOwner>>

\* add_category without the check of the type
AnyType(category_type) == TRUE

\* the check at the head of add_category
ValidType(category_type) == category_type \in {"income", "expense"}

\* Index('unique_category', 'name', 'type', unique=True): the insert of a
\* row is rejected when a row with the same name and type exists
UniqueViolation(cats, name, type) ==
    \E c \in cats : c.name = name /\ c.type = type

\* add_category(name, category_type)
add_category(u, name, category_type, fail) ==
    LET cat_type == IF category_type = "income" THEN "income" ELSE "expense"
        row == [id |-> nextCatId, name |-> name, type |-> cat_type]
    IN
    /\ IF ~ValidType(category_type)
       THEN \* returns False before any session is created
            /\ ret' = Result("add_category", FALSE, "invalid")
            /\ UNCHANGED <<categories, nextCatId, catOwner, openSessions>>
       ELSE IF UniqueViolation(categories, name, cat_type)
       THEN /\ ret' = Result("add_category", FALSE, "IntegrityError")
            /\ openSessions' = Scoped("except", openSessions)
            /\ UNCHANGED <<categories, nextCatId, catOwner>>
       ELSE IF fail
       THEN /\ ret' = Result("add_category", FALSE, "StorageError")
            /\ openSessions' = Scoped("except", openSessions)
            /\ UNCHANGED <<categories, nextCatId, catOwner>>
       ELSE /\ nextCatId \in FirstUserCatId..MaxCatId
            /\ categories' = categories \cup {row}
            /\ nextCatId' = nextCatId + 1
            /\ catOwner' = [c \in DOMAIN catOwner \cup {row.id} |->
                               IF c = row.id THEN u ELSE catOwner[c]]
            /\ ret' = Result("add_category", TRUE, row.id)
            /\ openSessions' = Scoped("return", openSessions)
    /\ UNCHANGED <<users, transactions, nextTxId, nextUserId, txOwner>>

\* a foreign key with ondelete='CASCADE': the transactions go with the category
Cascaded(txs, category_id) == {t \in txs : t.category_id # category_id}

\* ForeignKey('categories.id', ondelete='SET NULL') and the relationship
\* Category.transactions: deleting a category nulls the category_id of the
\* transactions that referred to it
Detached(txs, category_id) ==
    {IF t.category_id = category_id THEN [t EXCEPT !.category_id = NULL] ELSE t
        : t \in txs}

\* the ids of the transactions that refer to a category
Referring(txs, category_id) == {t.id : t \in {x \in txs : x.category_id = category_id}}

\* delete_category(category_id); a successful call is recorded with the
\* transactions it detached
delete_category(u, category_id, fail) ==
    LET found == {c \in categories : c.id = category_id}
    IN
    /\ IF fail
       THEN /\ ret' = Result("delete_category", FALSE, "StorageError")
            /\ openSessions' = Scoped("except", openSessions)
            /\ UNCHANGED <<categories, transactions, catOwner>>
       ELSE IF found = {}
       THEN /\ ret' = Result("delete_category", FALSE, "notfound")
            /\ openSessions' = Scoped("notfound", openSessions)
            /\ UNCHANGED <<categories, transactions, catOwner>>
       ELSE /\ categories' = categories \ found
            /\ transactions' = Detached(transactions, category_id)
            /\ catOwner' = [c \in DOMAIN catOwner \ {category_id} |-> catOwner[c]]
            /\ ret' = Result("delete_category", TRUE,
                             <<category_id, Referring(transactions, category_id)>>)
            /\ openSessions' = Scoped("return", openSessions)
    /\ UNCHANGED <<users, nextCatId, nextTxId, nextUserId, txOwner>>

-----------------------------------------------------------------------------
(* Construction of a new tracker: the process is started again *)

\* ExpenseTrackerORM.__init__ -> init_database; the session is the one of
\* _add_default_categories
init_database(fail) ==
    LET db == Constructed(fail)
    IN /\ categories' = db.categories
       /\ transactions' = db.transactions
       /\ nextCatId' = db.nextCatId
       /\ nextTxId' = db.nextTxId
       /\ catOwner' = db.catOwner
       /\ txOwner' = db.txOwner
       /\ openSessions' = Scoped(SeedPath({}, fail), 0)
       /\ ret' = Result("init_database", TRUE, << >>)
       /\ UNCHANGED <<users, nextUserId>>

-----------------------------------------------------------------------------
(* Registration *)

\* handles a visitor registers with
Usernames == {"", "ann", "bob"}

\* create_user(username, password): the user row and the seeding of the
\* default categories.  failUser is a storage error writing the user row,
\* failSeed one inside _add_default_categories.
create_user(username, failUser, failSeed) ==
    LET seeded == add_default_categories(categories, nextCatId, failSeed)
        made == Ids(seeded) \ Ids(categories)
    IN
    /\ IF username = ""
       THEN /\ ret' = Result("create_user", FALSE, "ValidationError")
            /\ UNCHANGED <<users, nextUserId, categories, nextCatId, catOwner,
                           openSessions>>
       ELSE IF \E usr \in users : usr.username = username
       THEN /\ ret' = Result("create_user", FALSE, "ConflictError")
            /\ openSessions' = Scoped("except", openSessions)
            /\ UNCHANGED <<users, nextUserId, categories, nextCatId, catOwner>>
       ELSE IF failUser
       THEN /\ ret' = Result("create_user", FALSE, "StorageError")
            /\ openSessions' = Scoped("except", openSessions)
            /\ UNCHANGED <<users, nextUserId, categories, nextCatId, catOwner>>
       ELSE /\ nextUserId <= MaxUsers
            /\ users' = users \cup {[id |-> nextUserId, username |-> username]}
            /\ nextUserId' = nextUserId + 1
            /\ categories' = seeded
            /\ nextCatId' = nextCatId + Cardinality(made)
            /\ catOwner' = [c \in DOMAIN catOwner \cup made |->
                               IF c \in made THEN nextUserId ELSE catOwner[c]]
            /\ openSessions' = Scoped(SeedPath(categories, failSeed),
                                      Scoped("return", openSessions))
            /\ ret' = Result("create_user", TRUE, nextUserId)
    /\ UNCHANGED <<transactions, nextTxId, txOwner>>

-----------------------------------------------------------------------------
(* Specification *)

Next ==
    \/ \E u \in Users, amount \in Amounts, category_id \in CategoryIdInputs \cup {NULL},
          description \in Descriptions, date \in DateInputs, fail \in BOOLEAN :
          add_transaction(u, amount, category_id, description, date, fail)
    \/ \E u \in Users, id \in TransactionIdInputs, fail \in BOOLEAN :
          delete_transaction(u, id, fail)
    \/ \E u \in Users, limit \in Limits, fail \in BOOLEAN :
          get_transactions(u, limit, fail)
    \/ \E u \in Users, fail \in BOOLEAN : get_balance(u, fail)
    \/ \E u \in Users, type \in FilterInputs, fail \in BOOLEAN :
          get_categories(u, type, fail)
    \/ \E u \in Users, name \in NameInputs, type \in TypeInputs, fail \in BOOLEAN :
          add_category(u, name, type, fail)
    \/ \E u \in Users, id \in CategoryIdInputs, fail \in BOOLEAN :
          delete_category(u, id, fail)
    \/ \E fail \in BOOLEAN : init_database(fail)

Spec == Init /\ [][Next]_vars

\* registration and the category manager, without transactions
NextRegistration ==
    \/ \E username \in Usernames, failUser \in BOOLEAN, failSeed \in BOOLEAN :
          create_user(username, failUser, failSeed)
    \/ \E u \in Users, name \in NameInputs, type \in TypeInputs, fail \in BOOLEAN :
          add_category(u, name, type, fail)
    \/ \E u \in Users, id \in CategoryIdInputs, fail \in BOOLEAN :
          delete_category(u, id, fail)
    \/ \E fail \in BOOLEAN : init_database(fail)

SpecRegistration == Init /\ [][NextRegistration]_vars

-----------------------------------------------------------------------------
(* Properties *)

\* the transactions created on behalf of user u
OwnedTransactions(u) == {t \in transactions : txOwner[t.id] = u}

\* the categories of user u: those created on behalf of u, and those seeded
\* when the tracker was constructed, which were made for no user in
\* particular and are counted as every user's own
OwnedCategories(u) == {c \in categories : catOwner[c.id] \in {u, NoUser}}

\* C1: whatever calls came before, the dictionary get_balance returns
\* satisfies balance = total_income - total_expense.
C1_BalanceIdentity ==
    ret.op = "get_balance" =>
        ret.out.balance = ret.out.total_income - ret.out.total_expense

\* get_balance has returned with both totals nonzero
C1_Witness ==
    /\ ret.op = "get_balance"
    /\ ret.ok
    /\ ret.out.total_income # 0
    /\ ret.out.total_expense # 0

\* the balance of user u as C2 describes it: the sums over the transactions
\* of u whose category is an income, or an expense, category
ScopedBalance(u) ==
    LET income == SumAmounts(JoinedOfType(OwnedTransactions(u), categories, "income"))
        expense == SumAmounts(JoinedOfType(OwnedTransactions(u), categories, "expense"))
    IN [total_income |-> income, total_expense |-> expense, balance |-> income - expense]

\* C2: get_balance called for user u returns the sums over the categorized
\* transactions of u alone.  The call and its result are the same for every
\* calling user, so the result has to be the scoped balance of each of them.
C2_BalanceScopedToUser ==
    [][\A u \in Users :
          get_balance(u, FALSE) => ret'.out = ScopedBalance(u)]_vars

\* C3: add_transaction for user u with a category id that does not resolve
\* to a category owned by u fails and leaves the transactions unchanged.
C3_ForeignCategoryRejected ==
    [][\A u \in Users, amount \in Amounts, category_id \in CategoryIdInputs,
          description \in Descriptions, date \in DateInputs, fail \in BOOLEAN :
          (/\ add_transaction(u, amount, category_id, description, date, fail)
           /\ category_id \notin Ids(OwnedCategories(u)))
          => (~ret'.ok /\ transactions' = transactions)]_vars

\* C4: no two categories share owner, name and type; add_category of a
\* triple that exists fails and adds nothing, and a name and type that the
\* calling user does not have yet is accepted (storage errors aside).
C4_UniquePerUser ==
    /\ [](\A u \in Users : \A c, d \in OwnedCategories(u) :
            (c.name = d.name /\ c.type = d.type) => c = d)
    /\ [][\A u \in Users, name \in NameInputs, type \in CategoryType :
            add_category(u, name, type, FALSE) =>
                IF \E c \in OwnedCategories(u) : c.name = name /\ c.type = type
                THEN ~ret'.ok /\ categories' = categories
                ELSE ret'.ok]_vars

\* the row of a set with a given id
RowById(rows, id) == CHOOSE r \in rows : r.id = id

\* C5: a successful delete_category removes that category row only and
\* keeps every transaction: same ids, amounts, dates, descriptions and
\* owners, the category reference null where it was the deleted category and
\* unchanged elsewhere; the listing shows the detached transactions with
\* the sentinels for name and type.
C5_DeleteCategoryDetaches ==
    [][(ret'.op = "delete_category" /\ ret'.ok) =>
          LET id == ret'.out[1]
          IN /\ categories' = {c \in categories : c.id # id}
             /\ Ids(transactions') = Ids(transactions)
             /\ txOwner' = txOwner
             /\ \A t \in transactions :
                   LET after == RowById(transactions', t.id)
                   IN /\ after.amount = t.amount
                      /\ after.date = t.date
                      /\ after.description = t.description
                      /\ after.created_at = t.created_at
                      /\ after.category_id =
                            IF t.category_id = id THEN NULL ELSE t.category_id
                      /\ t.category_id = id =>
                            /\ TransactionTuple(after, categories')[3] = Uncategorized
                            /\ TransactionTuple(after, categories')[4] = UnknownType]_vars

\* delete_category has detached a transaction, which is still there
C5_Witness ==
    /\ ret.op = "delete_category"
    /\ ret.ok
    /\ \E t \in transactions : t.id \in ret.out[2] /\ t.category_id = NULL

\* C6: a delete called by user u with an id that does not exist or belongs
\* to another user returns false and changes no row; with an id of u it
\* deletes that row and returns true (storage errors aside).
C6_DeleteOnlyOwnRows ==
    /\ [][\A u \in Users, id \in TransactionIdInputs :
            delete_transaction(u, id, FALSE) =>
                IF id \in Ids(OwnedTransactions(u))
                THEN ret'.ok /\ transactions' = {t \in transactions : t.id # id}
                ELSE ~ret'.ok /\ transactions' = transactions
                        /\ categories' = categories]_vars
    /\ [][\A u \in Users, id \in CategoryIdInputs :
            delete_category(u, id, FALSE) =>
                IF id \in Ids(OwnedCategories(u))
                THEN ret'.ok /\ categories' = {c \in categories : c.id # id}
                ELSE ~ret'.ok /\ transactions' = transactions
                        /\ categories' = categories]_vars

\* the smaller of two numbers
Min(a, b) == IF a < b THEN a ELSE b

\* C7: get_transactions called for user u with a limit returns min(limit,
\* number of transactions of u) rows, all of u, in the order of date
\* descending, then creation time descending, and no transaction of u left
\* out sorts before one that is returned.
C7_ListingScopedAndOrdered ==
    [][\A u \in Users, limit \in Limits :
          get_transactions(u, limit, FALSE) =>
             LET out == ret'.out
                 listed == {out[i][1] : i \in 1..Len(out)}
                 row(i) == RowById(transactions, out[i][1])
             IN /\ Len(out) = Min(limit, Cardinality(OwnedTransactions(u)))
                /\ listed \subseteq Ids(OwnedTransactions(u))
                /\ \A i \in 1..Len(out) : \A j \in i..Len(out) :
                      OrderedBefore(row(i), row(j))
                /\ \A t \in OwnedTransactions(u) :
                      t.id \notin listed =>
                         \A i \in 1..Len(out) : OrderedBefore(row(i), t)]_vars

C9_TypeValidated ==
    /\ [](\A c \in categories : c.type \in CategoryType)
    /\ [][\A u \in Users, name \in NameInputs, fail \in BOOLEAN :
            \A type \in TypeInputs \ CategoryType :
                add_category(u, name, type, fail)
                    => (~ret'.ok /\ categories' = categories
                            /\ nextCatId' = nextCatId)]_vars

\* add_category has turned down a type
C9_Witness == ret.op = "add_category" /\ ~ret.ok /\ ret.out = "invalid"

\* C10: when a manager operation has returned or raised, no session that
\* it created is open.
C10_SessionsReleased == openSessions = 0

\* an operation has left through its except branch
C10_Witness == ~ret.ok /\ ret.out = "StorageError"

\* C11: every stored transaction has an amount of at least zero, whatever
\* amounts add_transaction was called with, and the two totals get_balance
\* returns are at least zero.
C11_AmountsNonNegative ==
    /\ \A t \in transactions : t.amount >= 0
    /\ ret.op = "get_balance" =>
          (ret.out.total_income >= 0 /\ ret.out.total_expense >= 0)

====
